---- MODULE Spec2Model ----
(***************************************************************************)
(* Model of the Blacksmith broker client (boss): the retry engine          *)
(* (do / doWithRetry / shouldRetry / doSingle), the response               *)
(* classification (request / text), the public operations built on them,   *)
(* the error predicates, and the catalog lookup Catalog.Plan.              *)
(*                                                                         *)
(* Error messages are sequences of text fragments; strings.Contains is a   *)
(* search for a fragment.  An error value carries its dynamic Go type, its *)
(* message and, for fmt.Errorf("...%w"), the error it wraps.               *)
(***************************************************************************)
EXTENDS Integers, Sequences, FiniteSets, TLC

VARIABLES
    MaxRetries,   \* Client.MaxRetries, as configured
    URL,          \* Client.URL, as configured
    call,         \* the logical call in progress: operation, method, in, out
    pc,           \* position of the call: idle, loop, single, returned, done;
                  \* panic once the program has panicked
    url,          \* c.URL inside do's copy of the client (after TrimSuffix)
    maxRetries,   \* doWithRetry's local maxRetries
    attempt,      \* doWithRetry's loop counter
    lastErr,      \* doWithRetry's lastErr
    sleeps,       \* the time.Sleep calls of this logical call, in seconds
    history,      \* the outcome of each doSingle call of this logical call
    doRet,        \* what do() returned: [res, err]
    reqRet,       \* what request() / text() returned: [status, text, err]
    opRet,        \* what the public operation returned: [text, err]
    cat,          \* Catalog.Plan: the receiver
    service,      \* Catalog.Plan: first argument
    plan,         \* Catalog.Plan: second argument
    planRet,      \* Catalog.Plan: the returned triple
    registry,     \* the broker's instance registry: ID -> service, plan, time
    want,         \* Resolve: the argument
    fetches,      \* Resolve / Instances: what do() returned to each fetch
    resolveRet,   \* Resolve: the returned [id, err]
    instRet,      \* Instances: the returned [list, err]
    ua,           \* Client.ua of the client value the operations are called on
    transports,   \* the number of http.Client values created so far
    stream,       \* StreamTask: the argument follow and what the broker offers
    streamRet,    \* StreamTask: the lines printed and how the call ended
    instAgain,    \* Instances: what a repeated invocation returned
    timeout,      \* CreateAndWait: the argument timeout, in seconds
    putRet,       \* CreateAndWait: what request returned to the PUT
    now,          \* waitForOperation: seconds since the deadline was computed
    recv,         \* waitForOperation: when the last tick was received, 0
                  \* when none was
    prev,         \* waitForOperation: when the tick before that was received
    late,         \* waitForOperation: the polls issued after the deadline
    lastPoll,     \* waitForOperation: what the last poll returned
    waitRet,      \* waitForOperation: how it returned
    cawRet,       \* CreateAndWait: how it returned
    cmd,          \* the command line: command and argument
    target        \* the command line: the instance IDs requests were sent for

httpVars == <<MaxRetries, URL, call, pc, url, maxRetries, attempt, lastErr,
              sleeps, history, doRet, reqRet, opRet>>
catVars == <<cat, service, plan, planRet>>
regVars == <<registry, want, fetches, resolveRet, instRet, instAgain>>
cliVars == <<ua, transports>>
streamVars == <<stream, streamRet>>
waitVars == <<timeout, putRet, now, recv, prev, late, lastPoll, waitRet,
              cawRet>>
cmdVars == <<cmd, target>>
vars == <<MaxRetries, URL, call, pc, url, maxRetries, attempt, lastErr,
          sleeps, history, doRet, reqRet, opRet, cat, service, plan, planRet,
          registry, want, fetches, resolveRet, instRet, ua, transports, stream,
          streamRet, instAgain, timeout, putRet, now, recv, prev, late,
          lastPoll, waitRet, cawRet, cmd, target>>

----------------------------------------------------------------------------
(* Bounds of the model *)

\* largest configured Client.MaxRetries explored (the smallest is -1)
MaxRetriesMax == 2
\* longest catalog explored
MaxServices == 2
\* longest plan list of a service explored
MaxPlans == 2
\* largest instance registry explored
MaxInstances == 3
\* most operations called on one client value
MaxCalls == 2

----------------------------------------------------------------------------
(* Errors *)

NilErr ==
    [type |-> "nil", msg |-> <<>>, status |-> 0, code |-> "", stated |-> 0,
     cause |-> <<>>]

\* errors.New / fmt.Errorf without %w
NewError(text) ==
    [type |-> "errorString", msg |-> text, status |-> 0, code |-> "",
     stated |-> 0, cause |-> <<>>]

\* fmt.Errorf("<prefix>: %w", err): a *fmt.wrapError whose message embeds
\* the message of err and whose Unwrap() is err
Errorf(prefix, err) ==
    [type |-> "wrapError", msg |-> prefix \o err.msg, status |-> 0,
     code |-> "", stated |-> 0,
     cause |-> IF err.type = "nil" THEN <<>> ELSE <<err>>]

\* APIError{Status, Code, Description}; Error() is "Code: Description"
APIError(status, code, description) ==
    [type |-> "APIError", msg |-> <<code>> \o description, status |-> status,
     code |-> code, stated |-> 0, cause |-> <<>>]

\* strings.Contains(err.Error(), sub)
Contains(msg, sub) == \E i \in DOMAIN msg : msg[i] = sub

IsNotFound(err) ==
    IF err.type = "APIError"
    THEN err.status = 404 \/ err.code = "NotFound"
    ELSE FALSE

IsConflict(err) ==
    IF err.type = "APIError"
    THEN err.status = 409 \/ err.code = "Conflict"
    ELSE FALSE

----------------------------------------------------------------------------
(* Inputs: base URLs, request bodies, broker responses, transport faults *)

\* Client.URL values: text is the string, valid is what url.Parse makes of it
\* once a trailing "/" is removed
URLs ==
    { [text |-> <<"https://blacksmith.example.com">>, valid |-> TRUE],
      [text |-> <<"https://blacksmith.example.com", "/">>, valid |-> TRUE],
      [text |-> <<"http://broker:", "x">>, valid |-> FALSE],
      [text |-> <<"http://", "timeout", ".example:x">>, valid |-> FALSE] }

\* strings.TrimSuffix(c.URL, "/")
TrimSuffix(u) ==
    IF Len(u.text) > 0 /\ u.text[Len(u.text)] = "/"
    THEN [u EXCEPT !.text = SubSeq(u.text, 1, Len(u.text) - 1)]
    ELSE u

\* Response bodies.  len0: no bytes; readable: io.ReadAll succeeds;
\* api: json.Unmarshal(b, &apiErr) succeeds, giving Code = code;
\* out: json.Unmarshal(b, out) succeeds; yaml: yaml.Unmarshal succeeds
Body(id, len0, readable, api, code, out, yaml) ==
    [id |-> id, len0 |-> len0, readable |-> readable, api |-> api,
     code |-> code, out |-> out, yaml |-> yaml]

BodyEmpty == Body("empty", TRUE, TRUE, FALSE, "", FALSE, TRUE)
BodyText == Body("plain text", FALSE, TRUE, FALSE, "", FALSE, TRUE)
BodyBadYAML == Body("a: [", FALSE, TRUE, FALSE, "", FALSE, FALSE)
BodyObject == Body("{}", FALSE, TRUE, TRUE, "", TRUE, TRUE)
BodyError == Body("{error:Conflict}", FALSE, TRUE, TRUE, "Conflict", TRUE, TRUE)
BodyArray == Body("[1]", FALSE, TRUE, FALSE, "", FALSE, TRUE)
BodyBroken == Body("broken", FALSE, FALSE, FALSE, "", FALSE, FALSE)
NoBody == Body("none", TRUE, FALSE, FALSE, "", FALSE, FALSE)

Bodies ==
    {BodyEmpty, BodyText, BodyBadYAML, BodyObject, BodyError, BodyArray,
     BodyBroken}

Statuses == {200, 202, 304, 404, 409, 410, 500}

Responses == [status : Statuses, body : Bodies]
NoRes == [status |-> 0, body |-> NoBody]

\* what c.ua.Do fails with when no response arrives
TransportErrors == {"connection refused", "timeout", "no such host"}

\* the public operations: Go method, request()/text(), HTTP method, whether
\* a body is marshalled, whether an output target is passed, error prefix,
\* and the path string handed to do(), cut into pieces ("id" is the instance)
Op(op, kind, method, hasIn, hasOut, prefix, path) ==
    [op |-> op, kind |-> kind, method |-> method, hasIn |-> hasIn,
     hasOut |-> hasOut, prefix |-> prefix, path |-> path, inOK |-> TRUE]

InstancePath == <<"/v2/", "service_instances/", "id", "?", "accepts_incomplete=true">>

Ops ==
    { Op("Catalog", "request", "GET", FALSE, TRUE, "failed to get catalog",
         <<"/v2/", "catalog">>),
      Op("Create", "request", "PUT", TRUE, FALSE, "failed to create instance",
         InstancePath),
      Op("Update", "request", "PATCH", TRUE, FALSE, "failed to update instance",
         InstancePath),
      Op("Delete", "request", "DELETE", FALSE, FALSE, "failed to delete instance",
         InstancePath),
      Op("Task", "text", "GET", FALSE, FALSE, "failed to get task log",
         <<"/b/", "id", "/task.log">>),
      Op("Manifest", "text", "GET", FALSE, FALSE, "failed to get manifest",
         <<"/b/", "id", "/manifest.yml">>),
      Op("Creds", "text", "GET", FALSE, FALSE, "failed to get credentials",
         <<"/b/", "id", "/creds.yml">>),
      Op("Redeploy", "text", "GET", FALSE, FALSE, "failed to redeploy",
         <<"/b/", "id", "/redeploy">>) }

NoCall == Op("none", "none", "", FALSE, FALSE, "", <<>>)
NoRet == [status |-> 0, text |-> "", err |-> NilErr]

----------------------------------------------------------------------------
(* The retry engine: do, doWithRetry, shouldRetry, doSingle *)

\* doWithRetry's default: maxRetries := c.MaxRetries; if 0 then 3
DefaultMaxRetries == 3

EffectiveMaxRetries(n) == IF n = 0 THEN DefaultMaxRetries ELSE n

LoopCondOneMore(a, m) == a <= m + 1

\* the loop condition of doWithRetry
LoopCond(a, m) == a <= m

BackoffDoubling(a) == 2 * a

\* backoff := time.Duration(attempt*attempt) * time.Second
Backoff(a) == a * a

shouldRetry(err) ==
    IF err.type = "APIError"
    THEN err.status >= 500
    ELSE \/ Contains(err.msg, "connection refused")
         \/ Contains(err.msg, "timeout")
         \/ Contains(err.msg, "temporary failure")

\* what c.ua.Do can do: answer with a response, or fail with a fault
Outcomes ==
    {[fault |-> "", res |-> r] : r \in Responses}
        \cup {[fault |-> t, res |-> NoRes] : t \in TransportErrors}

\* u.String() after u.Path = path: the path is written escaped, and "?" is
\* not a character a path may hold unescaped
EscapePath(p) == [k \in DOMAIN p |-> IF p[k] = "?" THEN "%3F" ELSE p[k]]

\* the inverse, as applied by whoever parses the request target
UnescapePath(p) == [k \in DOMAIN p |-> IF p[k] = "%3F" THEN "?" ELSE p[k]]

\* the position of the first "?" of a request target, 0 when it has none
RECURSIVE QueryMark(_, _)
QueryMark(t, k) ==
    IF k > Len(t) THEN 0
    ELSE IF t[k] = "?" THEN k
    ELSE QueryMark(t, k + 1)

\* the path and the query component of the request target t
TargetPath(t) ==
    UnescapePath(IF QueryMark(t, 1) = 0 THEN t
                 ELSE SubSeq(t, 1, QueryMark(t, 1) - 1))
TargetQuery(t) ==
    IF QueryMark(t, 1) = 0 THEN <<>>
    ELSE SubSeq(t, QueryMark(t, 1) + 1, Len(t))

NoReq ==
    [path |-> <<>>, query |-> <<>>, version |-> "", contentType |-> "",
     accept |-> ""]

\* the request doSingle builds: u.Path = path, http.NewRequest(method,
\* u.String(), body), then the headers
BuildRequest(c) ==
    [path |-> TargetPath(EscapePath(c.path)),
     query |-> TargetQuery(EscapePath(c.path)),
     version |-> IF Len(c.path) > 0 /\ c.path[1] = "/v2/" THEN "2.16" ELSE "",
     contentType |-> "application/json", accept |-> "application/json"]

\* doSingle(method, path, in) when c.ua.Do would produce the outcome o.
\* Gives [res, err, kind, sent, req]: kind is the step that decided the
\* outcome, sent says that c.ua.Do was called (a physical HTTP attempt) and
\* req is the request it was called with
doSingle(c, u, o) ==
    IF c.hasIn /\ ~c.inOK
    THEN [res |-> NoRes, sent |-> FALSE, kind |-> "marshal", req |-> NoReq,
          err |-> Errorf(<<"failed to marshal request">>,
                         NewError(<<"json: unsupported type">>))]
    ELSE IF ~u.valid
    THEN [res |-> NoRes, sent |-> FALSE, kind |-> "url", req |-> NoReq,
          err |-> Errorf(<<"invalid URL">> \o u.text,
                         NewError(<<"parse">> \o u.text))]
    ELSE IF o.fault # ""
    THEN [res |-> NoRes, sent |-> TRUE, kind |-> "transport",
          req |-> BuildRequest(c),
          err |-> Errorf(<<"HTTP request failed">>,
                         NewError(<<c.method>> \o u.text \o <<o.fault>>))]
    ELSE [res |-> o.res, sent |-> TRUE, kind |-> "response",
          req |-> BuildRequest(c), err |-> NilErr]

\* return nil, fmt.Errorf("request failed after %d attempts: %w",
\*                         maxRetries+1, lastErr)
RetryError(m, e) ==
    [Errorf(<<"request failed after attempts">>, e) EXCEPT !.stated = m + 1]

\* A public operation is invoked: do() prepares its copy of the client and
\* doWithRetry starts its loop
Call ==
    /\ pc \in {"idle", "done"}
    /\ \E o \in Ops, ok \in BOOLEAN :
          /\ (~o.hasIn => ok)
          /\ call' = [o EXCEPT !.inOK = ok]
    /\ transports < MaxCalls
    /\ IF ua = "nil"
       THEN /\ transports' = transports + 1
            /\ url' = TrimSuffix(URL)
       ELSE /\ transports' = transports
            /\ url' = URL
    /\ UNCHANGED ua
    /\ UNCHANGED streamVars
    /\ UNCHANGED waitVars
    /\ UNCHANGED cmdVars
    /\ maxRetries' = EffectiveMaxRetries(MaxRetries)
    /\ attempt' = 0
    /\ lastErr' = NilErr
    /\ sleeps' = <<>>
    /\ history' = <<>>
    /\ doRet' = [res |-> NoRes, err |-> NilErr]
    /\ reqRet' = NoRet
    /\ opRet' = NoRet
    /\ pc' = "loop"
    /\ UNCHANGED <<MaxRetries, URL>>
    /\ UNCHANGED catVars
    /\ UNCHANGED regVars

\* the sleep that opens every iteration but the first
Sleep ==
    /\ pc = "loop"
    /\ LoopCond(attempt, maxRetries)
    /\ attempt > 0
    /\ sleeps' = Append(sleeps, Backoff(attempt))
    /\ pc' = "single"
    /\ UNCHANGED <<MaxRetries, URL, call, url, maxRetries, attempt, lastErr,
                   history, doRet, reqRet, opRet>>
    /\ UNCHANGED catVars
    /\ UNCHANGED regVars
    /\ UNCHANGED cliVars
    /\ UNCHANGED streamVars
    /\ UNCHANGED waitVars
    /\ UNCHANGED cmdVars

\* the rest of one iteration: doSingle, then return, break or continue
Attempt ==
    /\ \/ pc = "single"
       \/ pc = "loop" /\ LoopCond(attempt, maxRetries) /\ attempt = 0
    /\ \E o \in Outcomes :
          LET r == doSingle(call, url, o) IN
          /\ history' = Append(history, r)
          /\ IF r.err.type = "nil"
             THEN /\ doRet' = [res |-> r.res, err |-> NilErr]
                  /\ pc' = "returned"
                  /\ UNCHANGED <<lastErr, attempt>>
             ELSE /\ lastErr' = r.err
                  /\ IF ~shouldRetry(r.err)
                     THEN /\ doRet' = [res |-> NoRes,
                                       err |-> RetryError(maxRetries, r.err)]
                          /\ pc' = "returned"
                          /\ UNCHANGED attempt
                     ELSE /\ attempt' = attempt + 1
                          /\ pc' = "loop"
                          /\ UNCHANGED doRet
    /\ UNCHANGED <<MaxRetries, URL, call, url, maxRetries, sleeps, reqRet,
                   opRet>>
    /\ UNCHANGED catVars
    /\ UNCHANGED regVars
    /\ UNCHANGED cliVars
    /\ UNCHANGED streamVars
    /\ UNCHANGED waitVars
    /\ UNCHANGED cmdVars

\* the loop condition fails: every attempt allowed was made
Exhausted ==
    /\ pc = "loop"
    /\ ~LoopCond(attempt, maxRetries)
    /\ doRet' = [res |-> NoRes, err |-> RetryError(maxRetries, lastErr)]
    /\ pc' = "returned"
    /\ UNCHANGED <<MaxRetries, URL, call, url, maxRetries, attempt, lastErr,
                   sleeps, history, reqRet, opRet>>
    /\ UNCHANGED catVars
    /\ UNCHANGED regVars
    /\ UNCHANGED cliVars
    /\ UNCHANGED streamVars
    /\ UNCHANGED waitVars
    /\ UNCHANGED cmdVars

----------------------------------------------------------------------------
(* Response classification: request and text, and the public operations *)

IsGoneNever(method, status) == FALSE

\* if method == "DELETE" && res.StatusCode == 410
IsGone(method, status) == method = "DELETE" /\ status = 410

IsSuccessBelow400(status) == status >= 200 /\ status <= 399

\* the negation of: res.StatusCode < 200 || res.StatusCode > 299
IsSuccess(status) == status >= 200 /\ status <= 299

\* the APIError request builds for a status >= 400
ErrorResponse(status, b) ==
    IF b.api /\ b.code # ""
    THEN APIError(status, b.code, <<>>)
    ELSE APIError(status, "HTTPError",
                  <<"HTTP status">> \o (IF b.len0 THEN <<>> ELSE <<"-", b.id>>))

\* request(method, path, in, out), given what do() returned
request(c, d) ==
    IF d.err.type # "nil"
    THEN [status |-> 0, text |-> "",
          err |-> Errorf(<<"request failed">>, d.err)]
    ELSE LET b == d.res.body
             st == d.res.status
         IN  IF ~b.readable
             THEN [status |-> st, text |-> "",
                   err |-> Errorf(<<"failed to read response">>,
                                  NewError(<<"unexpected EOF">>))]
             ELSE IF c.hasOut /\ ~b.len0 /\ ~b.out
             THEN [status |-> st, text |-> "",
                   err |-> Errorf(<<"failed to parse response">>,
                                  NewError(<<"json: cannot unmarshal">>))]
             ELSE IF IsGone(c.method, st)
             THEN [status |-> st, text |-> "", err |-> NilErr]
             ELSE IF st >= 400
             THEN [status |-> st, text |-> "", err |-> ErrorResponse(st, b)]
             ELSE IF ~IsSuccess(st)
             THEN [status |-> st, text |-> "",
                   err |-> NewError(<<"unexpected status">>)]
             ELSE [status |-> st, text |-> "", err |-> NilErr]

\* text(path, args...), given what do() returned
text(c, d) ==
    IF d.err.type # "nil"
    THEN [status |-> 0, text |-> "",
          err |-> Errorf(<<"request failed">>, d.err)]
    ELSE IF d.res.status # 200
    THEN [status |-> d.res.status, text |-> "",
          err |-> NewError(<<"unexpected status">>)]
    ELSE IF ~d.res.body.readable
    THEN [status |-> d.res.status, text |-> "",
          err |-> Errorf(<<"failed to read response">>,
                         NewError(<<"unexpected EOF">>))]
    ELSE [status |-> d.res.status, text |-> d.res.body.id, err |-> NilErr]

\* a validation that accepts every content
validateYAMLAccepts(b) == NilErr

\* validateYAML(content)
validateYAML(b) ==
    IF b.yaml
    THEN NilErr
    ELSE Errorf(<<"invalid YAML">>, NewError(<<"yaml: did not find">>))

\* Catalog, Create, Update, Delete: the error of request, wrapped
StructuredOp(c, r) ==
    IF r.err.type # "nil"
    THEN [status |-> r.status, text |-> "",
          err |-> Errorf(<<c.prefix>>, r.err)]
    ELSE [status |-> r.status, text |-> "", err |-> NilErr]

\* Task, Redeploy, Manifest, Creds: the error of text, wrapped; Manifest and
\* Creds validate the text before returning it
TextOp(c, r, b) ==
    IF r.err.type # "nil"
    THEN [status |-> r.status, text |-> "",
          err |-> Errorf(<<c.prefix>>, r.err)]
    ELSE IF c.op \in {"Manifest", "Creds"} /\ validateYAML(b).type # "nil"
    THEN [status |-> r.status, text |-> "",
          err |-> Errorf(<<"invalid", c.op>>, validateYAML(b))]
    ELSE [status |-> r.status, text |-> r.text, err |-> NilErr]

\* a structured operation classifies what do() returned and returns
Request ==
    /\ pc = "returned"
    /\ call.kind = "request"
    /\ reqRet' = request(call, doRet)
    /\ opRet' = StructuredOp(call, request(call, doRet))
    /\ pc' = "done"
    /\ UNCHANGED <<MaxRetries, URL, call, url, maxRetries, attempt, lastErr,
                   sleeps, history, doRet>>
    /\ UNCHANGED catVars
    /\ UNCHANGED regVars
    /\ UNCHANGED cliVars
    /\ UNCHANGED streamVars
    /\ UNCHANGED waitVars
    /\ UNCHANGED cmdVars

\* a plain-text operation classifies what do() returned and returns
Text ==
    /\ pc = "returned"
    /\ call.kind = "text"
    /\ reqRet' = text(call, doRet)
    /\ opRet' = TextOp(call, text(call, doRet), doRet.res.body)
    /\ pc' = "done"
    /\ UNCHANGED <<MaxRetries, URL, call, url, maxRetries, attempt, lastErr,
                   sleeps, history, doRet>>
    /\ UNCHANGED catVars
    /\ UNCHANGED regVars
    /\ UNCHANGED cliVars
    /\ UNCHANGED streamVars
    /\ UNCHANGED waitVars
    /\ UNCHANGED cmdVars

----------------------------------------------------------------------------
(* The client specification *)

----------------------------------------------------------------------------
(* StreamTask *)

\* what the broker would do with the GET of StreamTask: a transport fault, or
\* a status and a body whose lines arrive in order until the server closes
\* the stream or the read fails
StreamOffer(fault, status, lines, readErr) ==
    [fault |-> fault, status |-> status, lines |-> lines, readErr |-> readErr]

StreamOffers ==
    { StreamOffer("connection refused", 0, <<>>, ""),
      StreamOffer("", 404, <<"not found">>, ""),
      StreamOffer("", 200, <<>>, ""),
      StreamOffer("", 200, <<"l1", "l2">>, ""),
      StreamOffer("", 200, <<"l1">>, "unexpected EOF") }

NoStream == [follow |-> FALSE, offer |-> StreamOffer("", 0, <<>>, "")]

StreamRet(ended, lines, err) == [ended |-> ended, lines |-> lines, err |-> err]

NoStreamRet == StreamRet("none", <<>>, NilErr)

\* StreamTask(id, follow) on a client whose ua field is uaField and whose
\* URL is u, against the offer o. ended is "returned", or "panic" when the
\* call dereferences a nil *http.Client
StreamTaskRun(u, uaField, follow, o) ==
    IF ~u.valid
    THEN StreamRet("returned", <<>>,
                   Errorf(<<"invalid URL">> \o u.text,
                          NewError(<<"parse">> \o u.text)))
    ELSE IF uaField = "nil"
    THEN StreamRet("panic", <<>>, NilErr)
    ELSE IF o.fault # ""
    THEN StreamRet("returned", <<>>,
                   Errorf(<<"request failed">>,
                          NewError(<<"GET">> \o u.text \o <<o.fault>>)))
    ELSE IF o.status # 200
    THEN StreamRet("returned", <<>>, NewError(<<"unexpected status">>))
    ELSE StreamRet("returned", o.lines,
                   IF o.readErr = "" THEN NilErr ELSE NewError(<<o.readErr>>))

\* StreamTask is called on the client while no other call is in progress; a
\* panic ends the program
StreamTask ==
    /\ pc \in {"idle", "done"}
    /\ \E follow \in BOOLEAN, o \in StreamOffers :
          /\ stream' = [follow |-> follow, offer |-> o]
          /\ streamRet' = StreamTaskRun(URL, ua, follow, o)
    /\ pc' = IF streamRet'.ended = "panic" THEN "panic" ELSE pc
    /\ UNCHANGED <<MaxRetries, URL, call, url, maxRetries, attempt, lastErr,
                   sleeps, history, doRet, reqRet, opRet>>
    /\ UNCHANGED catVars
    /\ UNCHANGED regVars
    /\ UNCHANGED cliVars
    /\ UNCHANGED waitVars
    /\ UNCHANGED cmdVars

----------------------------------------------------------------------------
(* Values of the variables of an operation that has not been called *)

NoAgain == [called |-> FALSE, list |-> <<>>, err |-> NilErr]
NoPut == [status |-> 0, err |-> NilErr, operation |-> ""]
NoPoll == [err |-> NilErr, state |-> "", description |-> ""]
NoWaitRet == [ended |-> "none", err |-> NilErr]
NoCmd == [name |-> "", arg |-> <<>>]

NoPlanRet ==
    [service |-> [ID |-> "", Name |-> "", Plans |-> <<>>],
     plan |-> [ID |-> "", Name |-> ""], err |-> NilErr]

Init ==
    /\ MaxRetries \in -1 .. MaxRetriesMax
    /\ URL \in URLs
    /\ call = NoCall
    /\ pc = "idle"
    /\ url = URL
    /\ maxRetries = 0
    /\ attempt = 0
    /\ lastErr = NilErr
    /\ sleeps = <<>>
    /\ history = <<>>
    /\ doRet = [res |-> NoRes, err |-> NilErr]
    /\ reqRet = NoRet
    /\ opRet = NoRet
    /\ cat = <<>>
    /\ service = ""
    /\ plan = ""
    /\ planRet = NoPlanRet
    /\ registry = <<>>
    /\ want = <<>>
    /\ fetches = <<>>
    /\ resolveRet = [id |-> <<>>, err |-> NilErr]
    /\ instRet = [list |-> <<>>, err |-> NilErr]
    /\ instAgain = NoAgain
    /\ ua = "nil"
    /\ transports = 0
    /\ stream = NoStream
    /\ streamRet = NoStreamRet
    /\ timeout = 0
    /\ putRet = NoPut
    /\ now = 0
    /\ recv = 0
    /\ prev = 0
    /\ late = 0
    /\ lastPoll = NoPoll
    /\ waitRet = NoWaitRet
    /\ cawRet = NoWaitRet
    /\ cmd = NoCmd
    /\ target = <<>>

Next ==
    Call \/ Sleep \/ Attempt \/ Exhausted \/ Request \/ Text \/ StreamTask

Spec == Init /\ [][Next]_vars

----------------------------------------------------------------------------
(* Properties of the retry engine *)

\* the physical HTTP attempts of the current logical call
Sent == Cardinality({i \in DOMAIN history : history[i].sent})

\* the broker answered, and its body arrived whole
Answered == doRet.err.type = "nil" /\ doRet.res.body.readable

\* the attempts so far are what a broker gives that answers 500, 500, 2xx
FailsTwiceThenSucceeds ==
    /\ history # <<>>
    /\ \A i \in DOMAIN history :
          /\ i <= 3
          /\ history[i].kind = "response"
          /\ (i <= 2 => history[i].res.status = 500)
          /\ (i = 3 => IsSuccess(history[i].res.status))

\* C1: with MaxRetries = 2, a call whose first two attempts are answered
\* with 500 and whose third is answered with a 2xx returns that 2xx response
\* after exactly three attempts, having slept 1s and then 4s.
C1_ServerErrorRetried ==
    (pc = "done" /\ MaxRetries = 2 /\ FailsTwiceThenSucceeds)
        => /\ Len(history) = 3
           /\ sleeps = <<1, 4>>
           /\ doRet.err.type = "nil"
           /\ IsSuccess(doRet.res.status)

\* a failure the retry policy is not to retry: a 4xx answer, a marshal
\* failure, a malformed URL, a transport error without a retryable text
NonRetryable(h) ==
    \/ h.kind = "response" /\ h.res.status >= 400 /\ h.res.status <= 499
    \/ h.kind = "marshal"
    \/ h.kind = "url"
    \/ h.kind = "transport" /\ ~shouldRetry(h.err)

\* C2: a non-retryable failure is the last attempt of its logical call, and
\* no backoff sleep follows it.
C2_NonRetryableEndsCall ==
    \A i \in DOMAIN history :
        NonRetryable(history[i]) => i = Len(history) /\ Len(sleeps) < i

\* C3: when the broker answers a public operation with 404 the returned
\* error satisfies IsNotFound, and with 409 it satisfies IsConflict.
C3_PredicatesClassify ==
    (pc = "done" /\ Answered)
        => /\ doRet.res.status = 404 => IsNotFound(opRet.err)
           /\ doRet.res.status = 409 => IsConflict(opRet.err)

\* C4 as claimed: for every MaxRetries = n >= 0 a logical call issues at
\* most n + 1 physical attempts.
C4_AtMostConfiguredPlusOne ==
    MaxRetries >= 0 => Sent <= MaxRetries + 1

\* C4: for every MaxRetries = n >= 1 a logical call issues at most n + 1
\* physical attempts; MaxRetries = 0 selects the default of 3 retries and
\* allows at most 4.
C4_AttemptsBounded ==
    /\ MaxRetries >= 1 => Sent <= MaxRetries + 1
    /\ MaxRetries = 0 => Sent <= DefaultMaxRetries + 1

C4_Witness ==
    /\ pc = "done"
    /\ MaxRetries >= 1
    /\ Sent = MaxRetries + 1
    /\ doRet.err.type # "nil"

\* C5: the k-th retry is preceded by exactly one sleep of k*k seconds; no
\* sleep precedes the first attempt and none follows the last one.
C5_BackoffSquares ==
    /\ \A k \in DOMAIN sleeps : sleeps[k] = k * k
    /\ Len(sleeps) = IF pc = "single" THEN Len(history)
                     ELSE IF history = <<>> THEN 0
                     ELSE Len(history) - 1

C5_Witness ==
    /\ pc = "done"
    /\ sleeps = <<1, 4, 9>>
    /\ \A i \in DOMAIN history : history[i].kind = "transport"

\* C6: when a logical call fails, the error returned wraps the error of the
\* last attempt and states the number of physical attempts actually made.
C6_ErrorStatesAttempts ==
    (pc = "done" /\ doRet.err.type # "nil" /\ history # <<>>)
        => /\ doRet.err.cause = <<history[Len(history)].err>>
           /\ doRet.err.stated = Sent

----------------------------------------------------------------------------
(* Properties of the response classification *)

\* C7: a DELETE answered with 410 succeeds, the 410 being the only attempt
\* answered; every other status >= 400 on DELETE is an error.
C7_DeleteGoneIsSuccess ==
    call.op = "Delete" =>
        /\ \A i \in DOMAIN history :
              (history[i].kind = "response" /\ history[i].res.status = 410)
                  => i = Len(history) /\ pc \notin {"loop", "single"}
        /\ (pc = "done" /\ Answered) =>
              /\ doRet.res.status = 410 =>
                    opRet.err.type = "nil" /\ reqRet.err.type = "nil"
              /\ (doRet.res.status >= 400 /\ doRet.res.status # 410) =>
                    opRet.err.type # "nil" /\ reqRet.err.type # "nil"

C7_Witness ==
    /\ pc = "done"
    /\ call.op = "Delete"
    /\ Answered
    /\ doRet.res.status = 410
    /\ Sent = 1
    /\ opRet.err.type = "nil"

\* the code the claim gives the APIError of an error response
ExpectedCode(b) == IF b.api /\ b.code # "" THEN b.code ELSE "HTTPError"

\* C8: for every structured call, with or without an output target, a
\* response with status >= 400 (other than 410 on DELETE) yields an APIError
\* with that status, and with the body's error code or "HTTPError".
C8_ErrorStatusGivesAPIError ==
    (/\ pc = "done"
     /\ call.kind = "request"
     /\ Answered
     /\ doRet.res.status >= 400
     /\ ~(call.method = "DELETE" /\ doRet.res.status = 410))
        => /\ reqRet.err.type = "APIError"
           /\ reqRet.err.status = doRet.res.status
           /\ reqRet.err.code = ExpectedCode(doRet.res.body)

\* C9: request returns no error exactly when the status is in [200,299] (or
\* 410 on DELETE) and the body, if non-empty and an output target is given,
\* decodes into it; a status below 400 outside [200,299] gives a plain error.
C9_RequestSucceedsExactlyWhen ==
    (pc = "done" /\ call.kind = "request" /\ Answered) =>
        LET st == doRet.res.status
            b == doRet.res.body
        IN  /\ reqRet.err.type = "nil" <=>
                  /\ (st >= 200 /\ st <= 299)
                        \/ (call.method = "DELETE" /\ st = 410)
                  /\ (call.hasOut /\ ~b.len0) => b.out
            /\ (st < 400 /\ ~(st >= 200 /\ st <= 299))
                  => reqRet.err.type \notin {"nil", "APIError"}

C9_Witness ==
    /\ pc = "done"
    /\ call.kind = "request"
    /\ call.hasOut
    /\ Answered
    /\ doRet.res.status = 200
    /\ doRet.res.body.len0
    /\ reqRet.err.type = "nil"

----------------------------------------------------------------------------
(* Catalog.Plan *)

\* the plans and services catalogs are built from: [ID, Name] and
\* [ID, Name, Plans].  IDs and names overlap, so that an input can match one
\* entry by ID and another by name
PlanPool ==
    { [ID |-> "p1", Name |-> "p2"],
      [ID |-> "p2", Name |-> "p1"],
      [ID |-> "p1", Name |-> "p1"] }

ServiceHeads ==
    { [ID |-> "s1", Name |-> "s2"],
      [ID |-> "s2", Name |-> "s1"] }

SeqsUpTo(S, n) == UNION {[1 .. k -> S] : k \in 0 .. n}

Services ==
    { [ID |-> h.ID, Name |-> h.Name, Plans |-> ps] :
          h \in ServiceHeads, ps \in SeqsUpTo(PlanPool, MaxPlans) }

Catalogs == SeqsUpTo(Services, MaxServices)

ServiceInputs == {"s1", "s2"}
PlanInputs == {"p1", "p2"}

NoService == [ID |-> "", Name |-> "", Plans |-> <<>>]
NoPlan == [ID |-> "", Name |-> ""]

KeyAlwaysID(x, byID) == x.ID

\* the field a pass compares: ID in the first loop, Name in the second
Key(x, byID) == IF byID THEN x.ID ELSE x.Name

\* for _, p := range s.Plans: the index of the first plan matching, or 0
RECURSIVE ScanPlans(_, _, _, _)
ScanPlans(plans, j, wantPlan, byID) ==
    IF j > Len(plans) THEN 0
    ELSE IF Key(plans[j], byID) = wantPlan THEN j
    ELSE ScanPlans(plans, j + 1, wantPlan, byID)

\* for _, s := range c.Services: the indexes <<i, j>> at which the loop
\* returns, or <<0, 0>> when it runs to its end
RECURSIVE ScanServices(_, _, _, _, _)
ScanServices(c, i, wantService, wantPlan, byID) ==
    IF i > Len(c) THEN <<0, 0>>
    ELSE IF /\ Key(c[i], byID) = wantService
            /\ ScanPlans(c[i].Plans, 1, wantPlan, byID) # 0
    THEN <<i, ScanPlans(c[i].Plans, 1, wantPlan, byID)>>
    ELSE ScanServices(c, i + 1, wantService, wantPlan, byID)

\* the two loops of Catalog.Plan, the first comparing as firstByID says
PlanPasses(c, wantService, wantPlan, firstByID) ==
    LET a == ScanServices(c, 1, wantService, wantPlan, firstByID)
        b == ScanServices(c, 1, wantService, wantPlan, ~firstByID)
    IN  IF a[1] # 0
        THEN [service |-> c[a[1]], plan |-> c[a[1]].Plans[a[2]],
              err |-> NilErr]
        ELSE IF b[1] # 0
        THEN [service |-> c[b[1]], plan |-> c[b[1]].Plans[b[2]],
              err |-> NilErr]
        ELSE [service |-> NoService, plan |-> NoPlan,
              err |-> NewError(<<"service", wantService, "/ plan", wantPlan,
                                 "not found">>)]

CatalogPlanNameFirst(c, wantService, wantPlan) ==
    PlanPasses(c, wantService, wantPlan, FALSE)

\* func (c Catalog) Plan(service, plan string) (*Service, *Plan, error)
CatalogPlan(c, wantService, wantPlan) ==
    PlanPasses(c, wantService, wantPlan, TRUE)

\* cat.Plan(service, plan) is called
PlanLookup ==
    /\ pc = "idle"
    /\ planRet' = CatalogPlan(cat, service, plan)
    /\ pc' = "done"
    /\ UNCHANGED <<MaxRetries, URL, call, url, maxRetries, attempt, lastErr,
                   sleeps, history, doRet, reqRet, opRet>>
    /\ UNCHANGED <<cat, service, plan>>
    /\ UNCHANGED regVars
    /\ UNCHANGED cliVars
    /\ UNCHANGED streamVars
    /\ UNCHANGED waitVars
    /\ UNCHANGED cmdVars

InitCatalog ==
    /\ cat \in Catalogs
    /\ service \in ServiceInputs
    /\ plan \in PlanInputs
    /\ planRet = NoPlanRet
    /\ MaxRetries = 0
    /\ URL = [text |-> <<"https://blacksmith.example.com">>, valid |-> TRUE]
    /\ call = NoCall
    /\ pc = "idle"
    /\ url = URL
    /\ maxRetries = 0
    /\ attempt = 0
    /\ lastErr = NilErr
    /\ sleeps = <<>>
    /\ history = <<>>
    /\ doRet = [res |-> NoRes, err |-> NilErr]
    /\ reqRet = NoRet
    /\ opRet = NoRet
    /\ registry = <<>>
    /\ want = <<>>
    /\ fetches = <<>>
    /\ resolveRet = [id |-> <<>>, err |-> NilErr]
    /\ instRet = [list |-> <<>>, err |-> NilErr]
    /\ instAgain = NoAgain
    /\ ua = "nil"
    /\ transports = 0
    /\ stream = NoStream
    /\ streamRet = NoStreamRet
    /\ timeout = 0
    /\ putRet = NoPut
    /\ now = 0
    /\ recv = 0
    /\ prev = 0
    /\ late = 0
    /\ lastPoll = NoPoll
    /\ waitRet = NoWaitRet
    /\ cawRet = NoWaitRet
    /\ cmd = NoCmd
    /\ target = <<>>

NextCatalog == PlanLookup

SpecCatalog == InitCatalog /\ [][NextCatalog]_vars

\* the positions <<i, j>> of the catalog that match the inputs by ID
IDMatches ==
    { m \in (DOMAIN cat) \X (1 .. MaxPlans) :
          /\ m[2] \in DOMAIN cat[m[1]].Plans
          /\ cat[m[1]].ID = service
          /\ cat[m[1]].Plans[m[2]].ID = plan }

\* m comes before n in catalog order
Before(m, n) == m[1] < n[1] \/ (m[1] = n[1] /\ m[2] <= n[2])

\* C10: when some service of the catalog has ID = service and owns a plan
\* with ID = plan, Catalog.Plan returns the first such service and plan in
\* catalog order, without error, whatever matches the inputs by name.
C10_PlanResolvesByID ==
    (pc = "done" /\ IDMatches # {}) =>
        \E m \in IDMatches :
            /\ \A n \in IDMatches : Before(m, n)
            /\ planRet.service = cat[m[1]]
            /\ planRet.plan = cat[m[1]].Plans[m[2]]
            /\ planRet.err.type = "nil"

\* an ID match exists, and an earlier service matches both inputs by name
C10_Witness ==
    /\ pc = "done"
    /\ IDMatches # {}
    /\ \E i \in DOMAIN cat, m \in IDMatches :
          /\ i < m[1]
          /\ cat[i].Name = service
          /\ \E j \in DOMAIN cat[i].Plans : cat[i].Plans[j].Name = plan
    /\ planRet.service.ID = service
    /\ planRet.plan.ID = plan

\* the positions <<i, j>> of the catalog that match the inputs by name
NameMatches ==
    { m \in (DOMAIN cat) \X (1 .. MaxPlans) :
          /\ m[2] \in DOMAIN cat[m[1]].Plans
          /\ cat[m[1]].Name = service
          /\ cat[m[1]].Plans[m[2]].Name = plan }

\* C11: when no pair of the catalog matches the inputs by ID, Catalog.Plan
\* returns the first service and plan (in catalog order) that match them by
\* name; when none matches by name either, it returns no service, no plan
\* and a not-found error whose message contains both inputs.
C11_PlanFallsBackToName ==
    (pc = "done" /\ IDMatches = {}) =>
        /\ NameMatches # {} =>
              \E m \in NameMatches :
                  /\ \A n \in NameMatches : Before(m, n)
                  /\ planRet.service = cat[m[1]]
                  /\ planRet.plan = cat[m[1]].Plans[m[2]]
                  /\ planRet.err.type = "nil"
        /\ NameMatches = {} =>
              /\ planRet.service = NoService
              /\ planRet.plan = NoPlan
              /\ planRet.err.type # "nil"
              /\ Contains(planRet.err.msg, service)
              /\ Contains(planRet.err.msg, plan)

\* no ID match; the first service with the wanted name lacks the wanted
\* plan and a later service with that name owns it
C11_Witness ==
    /\ pc = "done"
    /\ IDMatches = {}
    /\ \E m \in NameMatches :
          /\ m[1] > 1
          /\ cat[1].Name = service
          /\ planRet.service = cat[m[1]]
    /\ planRet.err.type = "nil"

----------------------------------------------------------------------------
(* The instance registry: Resolve *)

\* instance IDs and Resolve arguments are strings, written as the sequence of
\* their bytes; several IDs share a prefix and one ID is a prefix of others
IDPool == {<<1>>, <<1, 2>>, <<1, 3>>, <<2>>}
Wants == {<<>>, <<1>>, <<1, 2>>, <<3>>}

IDSets == {S \in SUBSET IDPool : Cardinality(S) <= MaxInstances}

\* what /b/status says of one instance; CreatedAt 0 is the zero time
Infos == [ServiceID : {"s1", "s2"}, PlanID : {"p1", "p2"}, CreatedAt : 0 .. 2]
NoInfo == [ServiceID |-> "s1", PlanID |-> "p1", CreatedAt |-> 0]

\* what do() can return to a fetch: a response, or the error of doWithRetry
FetchReturns ==
    {[res |-> [status |-> st, body |-> b], err |-> NilErr] :
          st \in {200, 404}, b \in {BodyObject, BodyEmpty, BodyArray}}
        \cup {[res |-> NoRes,
               err |-> RetryError(DefaultMaxRetries,
                                  NewError(<<"no such host">>))]}

\* c.request("GET", "/b/status", nil, &out)
StatusOp ==
    Op("status", "request", "GET", FALSE, TRUE, "failed to get status",
       <<"/b/", "status">>)

\* the map json.Unmarshal leaves in out.Instances: nothing is decoded from
\* an empty body
Decoded(d, reg) == IF d.res.body.len0 THEN <<>> ELSE reg

HasPrefixAlways(id, w) == TRUE

\* strings.HasPrefix(id, want)
HasPrefix(id, w) == Len(w) <= Len(id) /\ SubSeq(id, 1, Len(w)) = w

\* the IDs at which the first loop of Resolve can return
ExactMatches(ids, w) == {id \in ids : id = w}

\* the IDs at which the second loop of Resolve can return, the order of a
\* range over a map being unspecified
PrefixMatches(ids, w) == {id \in ids : HasPrefix(id, w)}

\* what Resolve(w) can return when do() returns d to its fetch and the
\* broker's registry is reg: the exact loop, then the prefix loop
ResolveReturns(d, reg, w) ==
    LET r == request(StatusOp, d)
        ids == DOMAIN Decoded(d, reg)
    IN  IF r.err.type # "nil"
        THEN {[id |-> <<>>,
               err |-> Errorf(<<"failed to get status">>, r.err)]}
        ELSE IF ExactMatches(ids, w) # {}
        THEN {[id |-> id, err |-> NilErr] : id \in ExactMatches(ids, w)}
        ELSE IF PrefixMatches(ids, w) # {}
        THEN {[id |-> id, err |-> NilErr] : id \in PrefixMatches(ids, w)}
        ELSE {[id |-> <<>>,
               err |-> NewError(<<"no instance found matching">>)]}

\* Resolve(want)
Resolve ==
    /\ pc = "idle"
    /\ \E d \in FetchReturns :
          /\ fetches' = <<d>>
          /\ resolveRet' \in ResolveReturns(d, registry, want)
    /\ pc' = "done"
    /\ UNCHANGED <<MaxRetries, URL, call, url, maxRetries, attempt, lastErr,
                   sleeps, history, doRet, reqRet, opRet>>
    /\ UNCHANGED catVars
    /\ UNCHANGED <<registry, want, instRet, instAgain>>
    /\ UNCHANGED cliVars
    /\ UNCHANGED streamVars
    /\ UNCHANGED waitVars
    /\ UNCHANGED cmdVars

InitResolve ==
    /\ registry \in UNION {[S -> {NoInfo}] : S \in IDSets}
    /\ want \in Wants
    /\ fetches = <<>>
    /\ resolveRet = [id |-> <<>>, err |-> NilErr]
    /\ instRet = [list |-> <<>>, err |-> NilErr]
    /\ instAgain = NoAgain
    /\ ua = "nil"
    /\ transports = 0
    /\ stream = NoStream
    /\ streamRet = NoStreamRet
    /\ timeout = 0
    /\ putRet = NoPut
    /\ now = 0
    /\ recv = 0
    /\ prev = 0
    /\ late = 0
    /\ lastPoll = NoPoll
    /\ waitRet = NoWaitRet
    /\ cawRet = NoWaitRet
    /\ cmd = NoCmd
    /\ target = <<>>
    /\ cat = <<>>
    /\ service = ""
    /\ plan = ""
    /\ planRet = NoPlanRet
    /\ MaxRetries = 0
    /\ URL = [text |-> <<"https://blacksmith.example.com">>, valid |-> TRUE]
    /\ call = NoCall
    /\ pc = "idle"
    /\ url = URL
    /\ maxRetries = 0
    /\ attempt = 0
    /\ lastErr = NilErr
    /\ sleeps = <<>>
    /\ history = <<>>
    /\ doRet = [res |-> NoRes, err |-> NilErr]
    /\ reqRet = NoRet
    /\ opRet = NoRet

NextResolve == Resolve

SpecResolve == InitResolve /\ [][NextResolve]_vars

\* the fetch of the registry succeeded; Fetched is the set of IDs it gave
FetchedOK == pc = "done" /\ request(StatusOp, fetches[1]).err.type = "nil"
Fetched == DOMAIN Decoded(fetches[1], registry)

\* C12: Resolve(want) returns want whenever want is an ID of the fetched
\* registry, even if it is a prefix of other IDs; otherwise, when exactly one
\* ID has want as a prefix, it returns that ID; when no ID equals or starts
\* with want, it returns an error.
C12_ResolveExactThenPrefix ==
    FetchedOK =>
        LET starts == {id \in Fetched :
                          /\ Len(want) <= Len(id)
                          /\ \A k \in 1 .. Len(want) : id[k] = want[k]}
        IN  /\ want \in Fetched =>
                  resolveRet.id = want /\ resolveRet.err.type = "nil"
            /\ (want \notin Fetched /\ Cardinality(starts) = 1) =>
                  resolveRet.id \in starts /\ resolveRet.err.type = "nil"
            /\ starts = {} =>
                  resolveRet.id = <<>> /\ resolveRet.err.type = "errorString"

\* want is an ID and a proper prefix of another ID of the registry
C12_Witness ==
    /\ FetchedOK
    /\ want \in Fetched
    /\ \E id \in Fetched : id # want /\ HasPrefix(id, want)
    /\ resolveRet.id = want

----------------------------------------------------------------------------
(* The instance registry: Instances *)

\* the catalogs Instances is explored with: none, one service, and two
\* services of which the second carries the names of the first's IDs
InstanceCatalogs ==
    { <<>>,
      << [ID |-> "s1", Name |-> "s2",
          Plans |-> <<[ID |-> "p1", Name |-> "p2"]>>] >>,
      << [ID |-> "s1", Name |-> "s2",
          Plans |-> <<[ID |-> "p1", Name |-> "p2"]>>],
         [ID |-> "s2", Name |-> "s1",
          Plans |-> <<[ID |-> "p2", Name |-> "p1"]>>] >> }

\* c.request("GET", "/v2/catalog", nil, &out)
CatalogOp ==
    Op("Catalog", "request", "GET", FALSE, TRUE, "failed to get catalog",
       <<"/v2/", "catalog">>)

\* the Catalog json.Unmarshal leaves in out: empty after an empty body
DecodedCatalog(d, c) == IF d.res.body.len0 THEN <<>> ELSE c

JoinAlwaysSet(c, id, info) ==
    LET found == CatalogPlan(c, info.ServiceID, info.PlanID)
    IN  [ID |-> id, Service |-> <<found.service>>, Plan |-> <<found.plan>>,
         CreatedAt |-> info.CreatedAt]

JoinNameFirst(c, id, info) ==
    LET found == CatalogPlanNameFirst(c, info.ServiceID, info.PlanID)
    IN  [ID |-> id,
         Service |-> IF found.err.type = "nil" THEN <<found.service>> ELSE <<>>,
         Plan |-> IF found.err.type = "nil" THEN <<found.plan>> ELSE <<>>,
         CreatedAt |-> info.CreatedAt]

\* the body of the loop over status.Instances: one Instance per entry, its
\* Service and Plan pointers (<<>> is nil) set when cat.Plan finds both
Join(c, id, info) ==
    LET found == CatalogPlan(c, info.ServiceID, info.PlanID)
    IN  [ID |-> id,
         Service |-> IF found.err.type = "nil" THEN <<found.service>> ELSE <<>>,
         Plan |-> IF found.err.type = "nil" THEN <<found.plan>> ELSE <<>>,
         CreatedAt |-> info.CreatedAt]

\* a < b for strings, byte by byte
RECURSIVE LessID(_, _)
LessID(a, b) ==
    IF b = <<>> THEN FALSE
    ELSE IF a = <<>> THEN TRUE
    ELSE IF Head(a) # Head(b) THEN Head(a) < Head(b)
    ELSE LessID(Tail(a), Tail(b))

lessOldestFirst(a, b) ==
    IF a.CreatedAt = 0 /\ b.CreatedAt = 0 THEN LessID(a.ID, b.ID)
    ELSE IF a.CreatedAt = 0 THEN FALSE
    ELSE IF b.CreatedAt = 0 THEN TRUE
    ELSE a.CreatedAt < b.CreatedAt

\* the less function given to sort.Slice
less(a, b) ==
    IF a.CreatedAt = 0 /\ b.CreatedAt = 0 THEN LessID(a.ID, b.ID)
    ELSE IF a.CreatedAt = 0 THEN FALSE
    ELSE IF b.CreatedAt = 0 THEN TRUE
    ELSE a.CreatedAt > b.CreatedAt

\* what sort.Slice can leave of the elems appended in map order: any
\* arrangement in which no element is less than one placed before it (the
\* sort is not stable and the order of a range over a map is unspecified)
SortSlice(elems) ==
    { l \in [1 .. Cardinality(elems) -> elems] :
          /\ \A i, j \in DOMAIN l : i # j => l[i] # l[j]
          /\ \A i, j \in DOMAIN l : i < j => ~less(l[j], l[i]) }

\* whether Instances stops at its catalog fetch, to which do() returned d
CatalogFails(d) ==
    StructuredOp(CatalogOp, request(CatalogOp, d)).err.type # "nil"

\* what Instances() can return when do() returns fs[1] to its catalog fetch
\* and fs[2] to its registry fetch, the broker holding catalog c0 and
\* registry reg0: join, then sort
InstancesReturns(fs, c0, reg0) ==
    IF CatalogFails(fs[1])
    THEN {[list |-> <<>>,
           err |-> Errorf(<<"failed to get catalog">>,
                          StructuredOp(CatalogOp,
                                       request(CatalogOp, fs[1])).err)]}
    ELSE LET r2 == request(StatusOp, fs[2])
             c == DecodedCatalog(fs[1], c0)
             reg == Decoded(fs[2], reg0)
         IN  IF r2.err.type # "nil"
             THEN {[list |-> <<>>,
                    err |-> Errorf(<<"failed to get instance status">>,
                                   r2.err)]}
             ELSE {[list |-> l, err |-> NilErr] :
                      l \in SortSlice({Join(c, id, reg[id]) :
                                          id \in DOMAIN reg})}

\* Instances(): fetch the catalog, fetch the registry, join, sort
Instances ==
    /\ pc = "idle"
    /\ \E d1 \in FetchReturns :
          IF CatalogFails(d1)
          THEN /\ fetches' = <<d1>>
               /\ instRet' \in InstancesReturns(<<d1>>, cat, registry)
          ELSE \E d2 \in FetchReturns :
                  /\ fetches' = <<d1, d2>>
                  /\ instRet' \in InstancesReturns(<<d1, d2>>, cat, registry)
    /\ pc' = "done"
    /\ UNCHANGED <<MaxRetries, URL, call, url, maxRetries, attempt, lastErr,
                   sleeps, history, doRet, reqRet, opRet>>
    /\ UNCHANGED catVars
    /\ UNCHANGED <<registry, want, resolveRet, instAgain>>
    /\ UNCHANGED cliVars
    /\ UNCHANGED streamVars
    /\ UNCHANGED waitVars
    /\ UNCHANGED cmdVars

\* Instances() is invoked once more and the broker, unchanged, answers both
\* fetches as it did
InstancesAgain ==
    /\ pc = "done"
    /\ Len(fetches) = 2
    /\ ~instAgain.called
    /\ \E x \in InstancesReturns(fetches, cat, registry) :
          instAgain' = [called |-> TRUE, list |-> x.list, err |-> x.err]
    /\ UNCHANGED <<MaxRetries, URL, call, pc, url, maxRetries, attempt,
                   lastErr, sleeps, history, doRet, reqRet, opRet>>
    /\ UNCHANGED catVars
    /\ UNCHANGED <<registry, want, fetches, resolveRet, instRet>>
    /\ UNCHANGED cliVars
    /\ UNCHANGED streamVars
    /\ UNCHANGED waitVars
    /\ UNCHANGED cmdVars

InitInstances ==
    /\ registry \in UNION {[S -> Infos] : S \in IDSets}
    /\ cat \in InstanceCatalogs
    /\ want = <<>>
    /\ fetches = <<>>
    /\ resolveRet = [id |-> <<>>, err |-> NilErr]
    /\ instRet = [list |-> <<>>, err |-> NilErr]
    /\ instAgain = NoAgain
    /\ ua = "nil"
    /\ transports = 0
    /\ stream = NoStream
    /\ streamRet = NoStreamRet
    /\ timeout = 0
    /\ putRet = NoPut
    /\ now = 0
    /\ recv = 0
    /\ prev = 0
    /\ late = 0
    /\ lastPoll = NoPoll
    /\ waitRet = NoWaitRet
    /\ cawRet = NoWaitRet
    /\ cmd = NoCmd
    /\ target = <<>>
    /\ service = ""
    /\ plan = ""
    /\ planRet = NoPlanRet
    /\ MaxRetries = 0
    /\ URL = [text |-> <<"https://blacksmith.example.com">>, valid |-> TRUE]
    /\ call = NoCall
    /\ pc = "idle"
    /\ url = URL
    /\ maxRetries = 0
    /\ attempt = 0
    /\ lastErr = NilErr
    /\ sleeps = <<>>
    /\ history = <<>>
    /\ doRet = [res |-> NoRes, err |-> NilErr]
    /\ reqRet = NoRet
    /\ opRet = NoRet

NextInstances == Instances

SpecInstances == InitInstances /\ [][NextInstances]_vars

\* the registries whose instances are all of one service and plan, so that
\* they differ by ID and creation time only
InitRepeat ==
    /\ InitInstances
    /\ \A id \in DOMAIN registry :
          registry[id].ServiceID = "s1" /\ registry[id].PlanID = "p1"

NextRepeat == Instances \/ InstancesAgain

SpecRepeat == InitRepeat /\ [][NextRepeat]_vars

\* Instances returned a list; the catalog and the registry it fetched
Listed == pc = "done" /\ Len(fetches) = 2 /\ instRet.err.type = "nil"
FetchedCatalog == DecodedCatalog(fetches[1], cat)
FetchedRegistry == Decoded(fetches[2], registry)

\* the entry's service_id and plan_id are the IDs of a service of the catalog
\* and of one of its plans / the names of a service and of one of its plans
InCatalogByID(c, info) ==
    \E i \in DOMAIN c :
        /\ c[i].ID = info.ServiceID
        /\ \E j \in DOMAIN c[i].Plans : c[i].Plans[j].ID = info.PlanID

InCatalogByName(c, info) ==
    \E i \in DOMAIN c :
        /\ c[i].Name = info.ServiceID
        /\ \E j \in DOMAIN c[i].Plans : c[i].Plans[j].Name = info.PlanID

C15_SortedNewestFirst ==
    Listed =>
        \A i, j \in DOMAIN instRet.list :
            i < j =>
                LET a == instRet.list[i]
                    b == instRet.list[j]
                IN  /\ a.CreatedAt = 0 => b.CreatedAt = 0
                    /\ (a.CreatedAt # 0 /\ b.CreatedAt # 0)
                          => a.CreatedAt >= b.CreatedAt
                    /\ (a.CreatedAt = 0 /\ b.CreatedAt = 0)
                          => LessID(a.ID, b.ID)

\* two timestamped instances, newest first, then one without a timestamp
\* whose ID is smaller than theirs
C15_Witness ==
    /\ Listed
    /\ Len(instRet.list) = 3
    /\ instRet.list[1].CreatedAt > instRet.list[2].CreatedAt
    /\ instRet.list[2].CreatedAt > 0
    /\ instRet.list[3].CreatedAt = 0
    /\ LessID(instRet.list[3].ID, instRet.list[1].ID)
    /\ LessID(instRet.list[3].ID, instRet.list[2].ID)

----------------------------------------------------------------------------
(* Properties of the requests sent *)

\* C16: Create, Update and Delete send their request to the path
\* /v2/service_instances/{id} with accepts_incomplete=true as the query
\* component of the request URL, not as part of the path.
C16_AcceptsIncompleteIsQuery ==
    \A i \in DOMAIN history :
        (history[i].sent /\ call.op \in {"Create", "Update", "Delete"})
            => /\ history[i].req.path = <<"/v2/", "service_instances/", "id">>
               /\ history[i].req.query = <<"accepts_incomplete=true">>

\* C18: the requests of the plain-text operations (Task, Manifest, Creds,
\* Redeploy) carry no JSON Content-Type/Accept headers, and those of the
\* structured calls carry them.
C18_TextCallsSkipJSONHeaders ==
    \A i \in DOMAIN history :
        history[i].sent =>
            /\ call.kind = "text" =>
                  /\ history[i].req.contentType # "application/json"
                  /\ history[i].req.accept # "application/json"
            /\ call.kind = "request" =>
                  /\ history[i].req.contentType = "application/json"
                  /\ history[i].req.accept = "application/json"

\* C17: when the broker answers Manifest or Creds with status 200, the
\* operation returns the body's text unchanged and no error if the text is
\* well-formed YAML, and an error with the empty string if it is not.
C17_ManifestCredsValidated ==
    (pc = "done" /\ call.op \in {"Manifest", "Creds"} /\ Answered
        /\ doRet.res.status = 200)
    => IF doRet.res.body.yaml
       THEN opRet.err.type = "nil" /\ opRet.text = doRet.res.body.id
       ELSE opRet.err.type # "nil" /\ opRet.text = ""

\* Creds returned after a 200 whose body is not well-formed YAML
C17_Witness ==
    /\ pc = "done"
    /\ call.op = "Creds"
    /\ Answered
    /\ doRet.res.status = 200
    /\ doRet.res.body = BodyBadYAML
    /\ opRet.err.type # "nil"
    /\ opRet.text = ""

----------------------------------------------------------------------------
(* The client's transport *)

\* C19: over all the operations called on one client value, at most one
\* transport is created: the first operation creates it and strips the base
\* URL, and every later operation reuses it.
C19_TransportCreatedOnce == transports <= 1

----------------------------------------------------------------------------
(* Properties of StreamTask *)

\* C20: a call of StreamTask returns; when the broker answers with a status
\* other than 200 it prints no line and returns an error; when the broker
\* answers 200 it prints the lines of the body in their order and returns
\* no error if the server closed the stream, the read error otherwise; a
\* transport error is returned without a line printed.
C20_StreamTaskStreams ==
    (streamRet.ended # "none" /\ URL.valid)
    => LET o == stream.offer IN
       /\ streamRet.ended = "returned"
       /\ (o.fault # "" =>
              streamRet.lines = <<>> /\ streamRet.err.type # "nil")
       /\ (o.fault = "" /\ o.status # 200 =>
              streamRet.lines = <<>> /\ streamRet.err.type # "nil")
       /\ (o.fault = "" /\ o.status = 200 =>
              /\ streamRet.lines = o.lines
              /\ (o.readErr = "" <=> streamRet.err.type = "nil"))

----------------------------------------------------------------------------
(* CreateAndWait and waitForOperation *)

\* 30 * time.Minute, in seconds
DefaultTimeout == 1800

\* the period of time.NewTicker(5 * time.Second), in seconds
TickerPeriod == 5

\* the timeouts CreateAndWait is called with, in seconds
Timeouts == {-5, 0, 10, 12}

\* how long a poll request can take, in seconds: less than a tick and more
PollDurations == {1, 7}

\* the states a last_operation answer can carry
OperationStates == {"", "succeeded", "failed", "in progress", "queued"}

\* c.request("PUT", "/v2/service_instances/id?accepts_incomplete=true", in,
\* &response)
CreateOp ==
    Op("CreateAndWait", "request", "PUT", TRUE, TRUE,
       "failed to create instance", InstancePath)

\* c.request("GET", "/v2/service_instances/id/last_operation?operation=tok",
\* nil, &status)
PollOp ==
    Op("waitForOperation", "request", "GET", FALSE, TRUE,
       "failed to get operation status",
       <<"/v2/", "service_instances/", "id", "/last_operation", "?",
         "operation=tok">>)

\* what do() can return to the PUT, with the operation token of the body
PutOffers ==
    { [d |-> [res |-> [status |-> st, body |-> b], err |-> NilErr],
       operation |-> t] :
          st \in {200, 202, 409}, b \in {BodyObject, BodyEmpty, BodyArray},
          t \in {"", "tok"} }
      \cup { [d |-> [res |-> NoRes,
                     err |-> RetryError(DefaultMaxRetries,
                                        NewError(<<"no such host">>))],
              operation |-> ""] }

\* what do() can return to a poll, with the state of the body when the body
\* is one that carries a state
PollOffers ==
    { o \in [d : FetchReturns, state : OperationStates] :
          o.state # "" => (o.d.err.type = "nil" /\ o.d.res.body.out) }

\* the field json.Unmarshal leaves in the target: nothing is decoded from an
\* empty body
DecodedField(d, value) ==
    IF d.err.type = "nil" /\ ~d.res.body.len0 /\ d.res.body.out
    THEN value
    ELSE ""

\* if status == 202 && response.Operation != ""
ShouldWaitOn202(status, operation) == status = 202

ShouldWait(status, operation) == status = 202 /\ operation # ""

\* if timeout == 0 { timeout = 30 * time.Minute }
EffectiveTimeout(t) == IF t = 0 THEN DefaultTimeout ELSE t

\* deadline := time.Now().Add(timeout), the clock being 0 at that instant
Deadline(t) == EffectiveTimeout(t)

AfterTwoTicks(t, d) == t > d + 2 * TickerPeriod

\* time.Now().After(deadline)
After(t, d) == t > d

\* the first tick that fires after time t
NextTickTime(t) == (t \div TickerPeriod + 1) * TickerPeriod

\* when "for range ticker.C", asked at time t, receives a tick, the previous
\* one having been received at time r: a tick that fired in between waits in
\* the channel, otherwise the next one is awaited
ReceiveTime(r, t) == IF NextTickTime(r) <= t THEN t ELSE NextTickTime(r)

PollVerdictLenient(r, state, description, t, d) ==
    IF r.err.type # "nil"
    THEN [ended |-> "returned",
          err |-> Errorf(<<"failed to get operation status">>, r.err)]
    ELSE IF state = "succeeded"
    THEN [ended |-> "returned", err |-> NilErr]
    ELSE IF state = "failed"
    THEN [ended |-> "returned",
          err |-> NewError(<<"operation failed", description>>)]
    ELSE IF After(t, d)
    THEN [ended |-> "returned",
          err |-> NewError(<<"operation timed out after">>)]
    ELSE NoWaitRet

\* one iteration of the loop of waitForOperation, from what request returned
\* and the decoded status, at time t after the poll, with deadline d
PollVerdict(r, state, description, t, d) ==
    IF r.err.type # "nil"
    THEN [ended |-> "returned",
          err |-> Errorf(<<"failed to get operation status">>, r.err)]
    ELSE IF state = "succeeded"
    THEN [ended |-> "returned", err |-> NilErr]
    ELSE IF state = "failed"
    THEN [ended |-> "returned",
          err |-> NewError(<<"operation failed", description>>)]
    ELSE IF state # "in progress"
    THEN [ended |-> "returned",
          err |-> NewError(<<"unknown operation state", state>>)]
    ELSE IF After(t, d)
    THEN [ended |-> "returned",
          err |-> NewError(<<"operation timed out after">>)]
    ELSE NoWaitRet

\* what CreateAndWait returns once waitForOperation returned w
AfterWait(w) ==
    IF w.err.type # "nil"
    THEN [ended |-> "returned",
          err |-> Errorf(<<"instance creation failed">>, w.err)]
    ELSE [ended |-> "returned", err |-> NilErr]

\* CreateAndWait up to the end of its PUT: it returns, or enters
\* waitForOperation, which computes its deadline and starts its ticker
CreateAndWait ==
    /\ pc = "idle"
    /\ \E o \in PutOffers :
          LET r == request(CreateOp, o.d)
              operation == DecodedField(o.d, o.operation)
          IN  /\ putRet' = [status |-> r.status, err |-> r.err,
                            operation |-> operation]
              /\ IF r.err.type # "nil"
                 THEN /\ cawRet' =
                            [ended |-> "returned",
                             err |-> Errorf(<<"failed to create instance">>,
                                            r.err)]
                      /\ pc' = "done"
                 ELSE IF ShouldWait(r.status, operation)
                 THEN /\ cawRet' = cawRet
                      /\ pc' = "tick"
                 ELSE /\ cawRet' = [ended |-> "returned", err |-> NilErr]
                      /\ pc' = "done"
    /\ now' = 0
    /\ recv' = 0
    /\ UNCHANGED <<timeout, prev, late, lastPoll, waitRet>>
    /\ UNCHANGED <<MaxRetries, URL, call, url, maxRetries, attempt, lastErr,
                   sleeps, history, doRet, reqRet, opRet>>
    /\ UNCHANGED catVars
    /\ UNCHANGED regVars
    /\ UNCHANGED cliVars
    /\ UNCHANGED streamVars
    /\ UNCHANGED cmdVars

\* the loop of waitForOperation receives a tick and issues its poll request
Tick ==
    /\ pc = "tick"
    /\ recv' = ReceiveTime(recv, now)
    /\ now' = recv'
    /\ prev' = recv
    /\ late' = IF After(recv', Deadline(timeout)) THEN late + 1 ELSE late
    /\ pc' = "poll"
    /\ UNCHANGED <<timeout, putRet, lastPoll, waitRet, cawRet>>
    /\ UNCHANGED <<MaxRetries, URL, call, url, maxRetries, attempt, lastErr,
                   sleeps, history, doRet, reqRet, opRet>>
    /\ UNCHANGED catVars
    /\ UNCHANGED regVars
    /\ UNCHANGED cliVars
    /\ UNCHANGED streamVars
    /\ UNCHANGED cmdVars

\* the poll request returns and the loop decides; when waitForOperation
\* returns, CreateAndWait returns
Poll ==
    /\ pc = "poll"
    /\ \E o \in PollOffers, dur \in PollDurations :
          LET r == request(PollOp, o.d)
              state == DecodedField(o.d, o.state)
              description == DecodedField(o.d, "reason")
              w == PollVerdict(r, state, description, now + dur,
                               Deadline(timeout))
          IN  /\ now' = now + dur
              /\ lastPoll' = [err |-> r.err, state |-> state,
                              description |-> description]
              /\ waitRet' = w
              /\ IF w.ended = "returned"
                 THEN cawRet' = AfterWait(w) /\ pc' = "done"
                 ELSE cawRet' = cawRet /\ pc' = "tick"
    /\ UNCHANGED <<timeout, putRet, recv, prev, late>>
    /\ UNCHANGED <<MaxRetries, URL, call, url, maxRetries, attempt, lastErr,
                   sleeps, history, doRet, reqRet, opRet>>
    /\ UNCHANGED catVars
    /\ UNCHANGED regVars
    /\ UNCHANGED cliVars
    /\ UNCHANGED streamVars
    /\ UNCHANGED cmdVars

InitWait ==
    /\ timeout \in Timeouts
    /\ putRet = NoPut
    /\ now = 0
    /\ recv = 0
    /\ prev = 0
    /\ late = 0
    /\ lastPoll = NoPoll
    /\ waitRet = NoWaitRet
    /\ cawRet = NoWaitRet
    /\ cmd = NoCmd
    /\ target = <<>>
    /\ registry = <<>>
    /\ want = <<>>
    /\ fetches = <<>>
    /\ resolveRet = [id |-> <<>>, err |-> NilErr]
    /\ instRet = [list |-> <<>>, err |-> NilErr]
    /\ instAgain = NoAgain
    /\ ua = "nil"
    /\ transports = 0
    /\ stream = NoStream
    /\ streamRet = NoStreamRet
    /\ cat = <<>>
    /\ service = ""
    /\ plan = ""
    /\ planRet = NoPlanRet
    /\ MaxRetries = 0
    /\ URL = [text |-> <<"https://blacksmith.example.com">>, valid |-> TRUE]
    /\ call = NoCall
    /\ pc = "idle"
    /\ url = URL
    /\ maxRetries = 0
    /\ attempt = 0
    /\ lastErr = NilErr
    /\ sleeps = <<>>
    /\ history = <<>>
    /\ doRet = [res |-> NoRes, err |-> NilErr]
    /\ reqRet = NoRet
    /\ opRet = NoRet

NextWait == CreateAndWait \/ Tick \/ Poll

SpecWait == InitWait /\ [][NextWait]_vars

\* every poll request returns, and a tick is received when one is due
SpecWaitFair == SpecWait /\ WF_vars(Tick) /\ WF_vars(Poll)

----------------------------------------------------------------------------
(* Properties of waitForOperation and CreateAndWait *)

\* the loop of waitForOperation has completed a poll
Polled == recv > 0 /\ pc # "poll"

\* the deadline of the call, in seconds after waitForOperation was entered
ThirtyMinutesOr(t) == IF t = 0 THEN 30 * 60 ELSE t

\* C21: every poll is issued on a tick of its own, 5 seconds apart; after a
\* poll, waitForOperation has returned without error only if the poll
\* reported "succeeded"; it has returned an error with the broker's
\* description if it reported "failed", an error if it reported a state it
\* does not know, an error if the poll request failed; and it is still
\* polling if the poll reported "in progress" before the deadline.
C21_PollDecides ==
    /\ recv > 0 => recv >= (prev \div 5 + 1) * 5
    /\ Polled =>
          /\ (waitRet.ended = "returned" /\ waitRet.err.type = "nil")
                => (lastPoll.err.type = "nil" /\ lastPoll.state = "succeeded")
          /\ lastPoll.err.type # "nil"
                => /\ waitRet.ended = "returned"
                   /\ Contains(waitRet.err.msg, "failed to get operation status")
          /\ (lastPoll.err.type = "nil" /\ lastPoll.state = "succeeded")
                => (waitRet.ended = "returned" /\ waitRet.err.type = "nil")
          /\ (lastPoll.err.type = "nil" /\ lastPoll.state = "failed")
                => /\ waitRet.ended = "returned"
                   /\ waitRet.err.msg
                          = <<"operation failed", lastPoll.description>>
          /\ (lastPoll.err.type = "nil"
                /\ lastPoll.state \notin {"succeeded", "failed", "in progress"})
                => /\ waitRet.ended = "returned"
                   /\ Contains(waitRet.err.msg, "unknown operation state")
          /\ (lastPoll.err.type = "nil" /\ lastPoll.state = "in progress"
                /\ now <= ThirtyMinutesOr(timeout))
                => (waitRet.ended = "none" /\ pc = "tick")

\* the operation succeeded at the second poll or later
C21_Witness ==
    /\ Polled
    /\ prev > 0
    /\ lastPoll.state = "succeeded"
    /\ waitRet.ended = "returned"
    /\ waitRet.err.type = "nil"
    /\ cawRet.err.type = "nil"

\* waitForOperation returned the timed-out error
TimedOut ==
    waitRet.ended = "returned"
        /\ Contains(waitRet.err.msg, "operation timed out after")

\* C22: once waitForOperation is entered it returns, provided every poll
\* request returns; a poll that reports "in progress" and completes after
\* the deadline (30 minutes when the timeout is 0) makes it return the
\* timed-out error, which it returns in no other case; so at most one poll
\* is issued after the deadline.
C22_WaitTerminates ==
    /\ [](/\ late <= 1
          /\ (pc = "tick" /\ recv > 0) => now <= ThirtyMinutesOr(timeout)
          /\ (Polled /\ lastPoll.err.type = "nil"
                /\ lastPoll.state = "in progress"
                /\ now > ThirtyMinutesOr(timeout)) => TimedOut
          /\ TimedOut => (/\ lastPoll.state = "in progress"
                          /\ now > ThirtyMinutesOr(timeout)))
    /\ (pc = "tick") ~> (pc = "done")

\* the default deadline passed against a broker that kept reporting
\* "in progress"
C22_Witness ==
    /\ timeout = 0
    /\ TimedOut
    /\ now > 30 * 60
    /\ cawRet.err.type # "nil"

\* C23: a poll is issued only after a PUT that succeeded with 202 and a
\* non-empty operation token; after a failed PUT CreateAndWait has returned
\* an error and no poll is issued; after any other successful PUT it has
\* returned without error and no poll is issued.
C23_WaitsOnlyWhenAccepted ==
    /\ (recv > 0 \/ pc \in {"tick", "poll"})
          => /\ putRet.err.type = "nil"
             /\ putRet.status = 202
             /\ putRet.operation # ""
    /\ (pc # "idle" /\ putRet.err.type # "nil")
          => /\ pc = "done"
             /\ recv = 0
             /\ cawRet.ended = "returned"
             /\ cawRet.err.type # "nil"
    /\ (pc # "idle" /\ putRet.err.type = "nil"
          /\ ~(putRet.status = 202 /\ putRet.operation # ""))
          => /\ pc = "done"
             /\ recv = 0
             /\ cawRet.ended = "returned"
             /\ cawRet.err.type = "nil"

\* a 202 without an operation token: the instance is returned at once
C23_Witness ==
    /\ pc = "done"
    /\ putRet.err.type = "nil"
    /\ putRet.status = 202
    /\ putRet.operation = ""
    /\ recv = 0
    /\ cawRet.ended = "returned"
    /\ cawRet.err.type = "nil"

----------------------------------------------------------------------------
(* Further properties of the retry engine *)

\* C24: a logical call that has returned has made at least one attempt, and
\* the error it returned, if any, wraps an error that is not nil; whatever
\* the value of MaxRetries.
C24_AtLeastOneAttempt ==
    pc = "done" =>
        /\ history # <<>>
        /\ doRet.err.type # "nil" => doRet.err.cause # <<>>

----------------------------------------------------------------------------
(* Further properties of Resolve *)

\* C25: Resolve of the empty identifier returns the not-found error and no
\* ID, whatever the registry holds.
C25_EmptyNeverResolves ==
    (pc = "done" /\ want = <<>>)
        => /\ resolveRet.id = <<>>
           /\ resolveRet.err.type # "nil"
           /\ (FetchedOK => Contains(resolveRet.err.msg,
                                     "no instance found matching"))

----------------------------------------------------------------------------
(* The command line: the commands that take an instance *)

Commands == {"delete", "task", "manifest", "creds", "redeploy"}

\* the client operation each command ends with
CommandOp ==
    [delete |-> "Delete", task |-> "Task", manifest |-> "Manifest",
     creds |-> "Creds", redeploy |-> "Redeploy"]

NeedsResolveAlways(name) == TRUE

\* whether the command passes its argument through c.Resolve before use
NeedsResolve(name) == name # "delete"

\* the client operation of a command, given what do() returned to it
CommandReturn(o, d) ==
    IF o.kind = "text"
    THEN TextOp(o, text(o, d), d.res.body)
    ELSE StructuredOp(o, request(o, d))

\* one run of a command with one argument: connect, resolve the argument
\* unless the command is delete, call the operation for the resulting ID,
\* exit; a failed Resolve exits before the operation
Command ==
    /\ pc = "idle"
    /\ \E name \in Commands, arg \in Wants :
          LET o == CHOOSE x \in Ops : x.op = CommandOp[name]
          IN  /\ cmd' = [name |-> name, arg |-> arg]
              /\ call' = o
              /\ IF NeedsResolve(name)
                 THEN \E d \in FetchReturns :
                         /\ fetches' = <<d>>
                         /\ resolveRet' \in ResolveReturns(d, registry, arg)
                 ELSE UNCHANGED <<fetches, resolveRet>>
              /\ IF resolveRet'.err.type # "nil"
                 THEN /\ target' = <<>>
                      /\ opRet' = opRet
                 ELSE /\ target' =
                            <<[op |-> o.op,
                               id |-> IF NeedsResolve(name)
                                      THEN resolveRet'.id
                                      ELSE arg]>>
                      /\ \E d \in FetchReturns :
                            opRet' = CommandReturn(o, d)
    /\ pc' = "done"
    /\ UNCHANGED <<MaxRetries, URL, url, maxRetries, attempt, lastErr,
                   sleeps, history, doRet, reqRet>>
    /\ UNCHANGED catVars
    /\ UNCHANGED <<registry, want, instRet, instAgain>>
    /\ UNCHANGED cliVars
    /\ UNCHANGED streamVars
    /\ UNCHANGED waitVars

InitCommand ==
    /\ registry \in UNION {[S -> {NoInfo}] : S \in IDSets}
    /\ cmd = NoCmd
    /\ target = <<>>
    /\ want = <<>>
    /\ fetches = <<>>
    /\ resolveRet = [id |-> <<>>, err |-> NilErr]
    /\ instRet = [list |-> <<>>, err |-> NilErr]
    /\ instAgain = NoAgain
    /\ timeout = 0
    /\ putRet = NoPut
    /\ now = 0
    /\ recv = 0
    /\ prev = 0
    /\ late = 0
    /\ lastPoll = NoPoll
    /\ waitRet = NoWaitRet
    /\ cawRet = NoWaitRet
    /\ ua = "nil"
    /\ transports = 0
    /\ stream = NoStream
    /\ streamRet = NoStreamRet
    /\ cat = <<>>
    /\ service = ""
    /\ plan = ""
    /\ planRet = NoPlanRet
    /\ MaxRetries = 0
    /\ URL = [text |-> <<"https://blacksmith.example.com">>, valid |-> TRUE]
    /\ call = NoCall
    /\ pc = "idle"
    /\ url = URL
    /\ maxRetries = 0
    /\ attempt = 0
    /\ lastErr = NilErr
    /\ sleeps = <<>>
    /\ history = <<>>
    /\ doRet = [res |-> NoRes, err |-> NilErr]
    /\ reqRet = NoRet
    /\ opRet = NoRet

NextCommand == Command

SpecCommand == InitCommand /\ [][NextCommand]_vars

\* C26: the delete command sends its DELETE for the ID that is its argument
\* as typed, without fetching the registry, even when the argument is a
\* prefix of the ID of an instance; task, manifest, creds and redeploy send
\* their request for the ID Resolve returned for the argument.
C26_DeleteTakesArgumentVerbatim ==
    pc = "done" =>
        /\ cmd.name = "delete" =>
              /\ fetches = <<>>
              /\ target = <<[op |-> "Delete", id |-> cmd.arg]>>
        /\ cmd.name # "delete" =>
              /\ fetches # <<>>
              /\ \A i \in DOMAIN target :
                    /\ resolveRet.err.type = "nil"
                    /\ target[i].id = resolveRet.id
                    /\ target[i].op = CommandOp[cmd.name]

\* delete was given a proper prefix of the ID of an instance, and no instance
\* has that ID
C26_Witness ==
    /\ pc = "done"
    /\ cmd.name = "delete"
    /\ cmd.arg = <<1>>
    /\ <<1>> \notin DOMAIN registry
    /\ <<1, 2>> \in DOMAIN registry
    /\ target = <<[op |-> "Delete", id |-> <<1>>]>>

----------------------------------------------------------------------------
(* Further properties of StreamTask *)

\* C27: StreamTask never dereferences a nil transport: a call of it
\* returns, be it the first operation on the client or a later one.
C27_StreamTaskNeverPanics ==
    /\ streamRet.ended # "panic"
    /\ pc # "panic"

----------------------------------------------------------------------------
(* Further properties of Instances *)

\* C28: two invocations of Instances that receive the same catalog and
\* registry responses return the same sequence of instances, also when
\* several instances have the same creation time.
C28_InstancesDeterministic ==
    instAgain.called
        => /\ instAgain.list = instRet.list
           /\ instAgain.err = instRet.err

====
